---- MODULE Spec2Model ----
(***************************************************************************)
(* Model of lambda_function.lambda_handler (ecr-image-logger): one Lambda  *)
(* invocation resolves three fields from the inbound event, reads the      *)
(* clock, writes an item with table.put_item, composes a message,         *)
(* publishes it with sns.publish and returns a status envelope.           *)
(***************************************************************************)
EXTENDS Integers, Sequences, FiniteSets, TLC

\* ------------------------------------------------------------- bounds
MaxClock == 1          \* the clock takes the values 0..MaxClock
NumInvocations == 2    \* handler invocations that may run concurrently

\* ------------------------------------------------------ JSON values
\* A JSON scalar as Python sees it: a str, or None (JSON null).
StrVal(s) == [type |-> "str", val |-> s]
Null == [type |-> "null", val |-> ""]
\* A local variable of the handler that has not been assigned yet.
Unset == [type |-> "unset", val |-> ""]

\* The string a key carries when it carries one (the spec's scenarios 1, 2, 4).
StringOf(key) ==
    CASE key = "account" -> "acct1"
      [] key = "image_tag" -> "latest"
      [] key = "repository" -> "svc"
      [] key = "pushed_by" -> "ci-bot"
      [] key = "image-tag" -> "v1.2"
      [] key = "repository-name" -> "myapp"

\* The values a key may carry: null, or its string.
ValuesOf(key) == {Null, StrVal(StringOf(key))}

\* Python dicts with keys from K: the key may be absent.
Dicts(K) ==
    UNION {{f \in [S -> {Null} \cup {StrVal(StringOf(k)) : k \in K}] :
               \A k \in S : f[k] \in ValuesOf(k)} : S \in SUBSET K}
EmptyDict == [k \in {} |-> Null]

TopKeys == {"account", "image_tag", "repository", "pushed_by"}
DetailKeys == {"image-tag", "repository-name"}

\* The value under the top-level "detail" key: absent, a map, or a JSON
\* value that is not a map (a string, null).
DetailValues ==
    {[kind |-> "absent", fields |-> EmptyDict]}
    \cup {[kind |-> "map", fields |-> d] : d \in Dicts(DetailKeys)}
    \cup {[kind |-> k, fields |-> EmptyDict] : k \in {"str", "null"}}

\* Every inbound event handed to lambda_handler in the sequential runs.
Events == [top : Dicts(TopKeys), detail : DetailValues]

\* The events delivered in the concurrent runs.
ConcEvents ==
    { [top |-> EmptyDict, detail |-> [kind |-> "absent", fields |-> EmptyDict]],
      [top |-> [k \in {"account"} |-> StrVal("acct1")],
       detail |-> [kind |-> "map",
                   fields |-> [k \in DetailKeys |-> StrVal(StringOf(k))]]],
      [top |-> EmptyDict, detail |-> [kind |-> "str", fields |-> EmptyDict]] }

\* ----------------------------------------------------- pure helpers
\* dict.get(key): the default is dropped and None comes back for a missing key.
GetNoDefault(d, key, default) == IF key \in DOMAIN d THEN d[key] ELSE Null

\* dict.get(key, default)
Get(d, key, default) == IF key \in DOMAIN d THEN d[key] ELSE default

\* "detail" in event
HasDetail(event) == event.detail.kind # "absent"

\* event['detail'].get raises AttributeError unless the value is a dict.
DetailLookupRaises(event) == HasDetail(event) /\ event.detail.kind # "map"

ResolveImageTag(event) ==
    IF HasDetail(event)
    THEN Get(event.detail.fields, "image-tag", StrVal("unknown-tag"))
    ELSE Get(event.top, "image_tag", StrVal("unknown-tag"))

\* The top-level key wins over the one under detail.
ResolveRepositoryTopFirst(event) ==
    IF "repository" \in DOMAIN event.top
    THEN event.top["repository"]
    ELSE IF event.detail.kind # "absent"
         THEN IF "repository-name" \in DOMAIN event.detail.fields
              THEN event.detail.fields["repository-name"]
              ELSE [type |-> "str", val |-> "unknown-repo"]
         ELSE [type |-> "str", val |-> "unknown-repo"]

ResolveRepository(event) ==
    IF HasDetail(event)
    THEN Get(event.detail.fields, "repository-name", StrVal("unknown-repo"))
    ELSE Get(event.top, "repository", StrVal("unknown-repo"))

ResolvePushedBy(event) ==
    IF HasDetail(event)
    THEN Get(event.top, "account", StrVal("unknown-user"))
    ELSE Get(event.top, "pushed_by", StrVal("unknown-user"))

\* One decimal digit, and a natural number zero-padded to n digits.
Digit(d) == <<"0", "1", "2", "3", "4", "5", "6", "7", "8", "9">>[d + 1]
RECURSIVE Pad(_, _)
Pad(x, n) == IF n = 0 THEN "" ELSE Pad(x \div 10, n - 1) \o Digit(x % 10)

\* datetime.isoformat() of the instant c microseconds after the epoch of
\* the model: the fraction is left out when the microsecond is 0.
IsoFormat(c) ==
    LET us == c % 1000000
        s  == (c \div 1000000) % 60
    IN  "2024-01-01T00:00:" \o Pad(s, 2)
        \o (IF us = 0 THEN "" ELSE "." \o Pad(us, 6))

\* str(v) as an f-string renders it.
Str(v) == IF v.type = "null" THEN "None" ELSE v.val

\* The Tag line is filled with the repository and the Repository line with the tag.
MessageSwapped(repository, image_tag, pushed_by, timestamp) ==
    "Docker image pushed successfully!\n"
    \o "Repository: " \o Str(image_tag) \o "\n"
    \o "Tag: " \o Str(repository) \o "\n"
    \o "Pushed By: " \o Str(pushed_by) \o "\n"
    \o "Timestamp: " \o timestamp

Message(repository, image_tag, pushed_by, timestamp) ==
    "Docker image pushed successfully!\n"
    \o "Repository: " \o Str(repository) \o "\n"
    \o "Tag: " \o Str(image_tag) \o "\n"
    \o "Pushed By: " \o Str(pushed_by) \o "\n"
    \o "Timestamp: " \o timestamp

Subject == "ECR Image Push Notification"

\* json.dumps of a str that needs no escaping.
JsonDumps(s) == "\"" \o s \o "\""

\* The body is the bare string, json.dumps forgotten.
EnvelopeRawBody == [statusCode |-> 200, body |-> "Lambda executed successfully!"]

Envelope == [statusCode |-> 200, body |-> JsonDumps("Lambda executed successfully!")]
NoResult == [statusCode |-> 0, body |-> ""]

\* ------------------------------------------------------ the table
Attributes == {"Repository", "ImageTag", "PushedBy", "Timestamp"}

\* The key schema of the table named by DYNAMODB_TABLE: a partition key,
\* or a partition key and a sort key, among the attributes the handler writes.
KeySchemas == {S \in SUBSET Attributes : Cardinality(S) \in {1, 2}}

Item(repository, image_tag, pushed_by, timestamp) ==
    [Repository |-> repository, ImageTag |-> image_tag,
     PushedBy |-> pushed_by, Timestamp |-> StrVal(timestamp)]
NoItem == Item(Unset, Unset, Unset, "")

KeyOf(schema, item) == [a \in schema |-> item[a]]

\* put_item rejects an item whose key attribute is not a string.
ValidKey(schema, item) == \A a \in schema : item[a].type = "str"

\* Every put_item adds an item, whatever its key.
PutIntoAlwaysAdds(schema, items, item) == items \cup {item}

\* put_item creates the item, or replaces the item that has the same key.
PutInto(schema, items, item) ==
    {i \in items : KeyOf(schema, i) # KeyOf(schema, item)} \cup {item}

\* ---------------------------------------------------------- state
VARIABLES
    clock,      \* the wall clock, in microseconds
    table,      \* the DynamoDB table: [schema, items]
    topic,      \* per invocation, the notifications it published to SNS
    inv         \* per invocation, the handler's frame

vars == <<clock, table, topic, inv>>

Procs == 1..NumInvocations

IdleFrame ==
    [pc |-> "idle", event |-> [top |-> EmptyDict,
                               detail |-> [kind |-> "absent", fields |-> EmptyDict]],
     image_tag |-> Unset, repository |-> Unset, pushed_by |-> Unset,
     timestamp |-> "", item |-> NoItem, message |-> "",
     calls |-> <<>>, error |-> "", result |-> NoResult]

Init ==
    /\ clock = 0
    /\ table \in [schema : KeySchemas, items : {{}}]
    /\ topic = [p \in Procs |-> <<>>]
    /\ inv = [p \in Procs |-> IdleFrame]

\* ---------------------------------------------------------- actions
\* The hosting environment calls lambda_handler(event, context).
Invoke(p, E) ==
    /\ inv[p].pc = "idle"
    /\ \E e \in E : inv' = [inv EXCEPT ![p].pc = "resolve", ![p].event = e]
    /\ UNCHANGED <<clock, table, topic>>

\* Lines 21-28, the lookups succeed.
ResolveFields(p) ==
    /\ inv[p].pc = "resolve"
    /\ ~DetailLookupRaises(inv[p].event)
    /\ inv' = [inv EXCEPT ![p].pc = "timestamp",
                          ![p].image_tag = ResolveImageTag(inv[p].event),
                          ![p].repository = ResolveRepository(inv[p].event),
                          ![p].pushed_by = ResolvePushedBy(inv[p].event)]
    /\ UNCHANGED <<clock, table, topic>>

\* Line 22: event['detail'] is not a dict, .get raises AttributeError.
ResolveFieldsRaises(p) ==
    /\ inv[p].pc = "resolve"
    /\ DetailLookupRaises(inv[p].event)
    /\ inv' = [inv EXCEPT ![p].pc = "raised", ![p].error = "AttributeError"]
    /\ UNCHANGED <<clock, table, topic>>

\* Line 31.
Timestamp(p) ==
    /\ inv[p].pc = "timestamp"
    /\ inv' = [inv EXCEPT ![p].pc = "put", ![p].timestamp = IsoFormat(clock)]
    /\ UNCHANGED <<clock, table, topic>>

\* Lines 34-42, put_item succeeds.
PutItem(p) ==
    LET item == Item(inv[p].repository, inv[p].image_tag,
                     inv[p].pushed_by, inv[p].timestamp)
    IN  /\ inv[p].pc = "put"
        /\ ValidKey(table.schema, item)
        /\ table' = [table EXCEPT !.items = PutInto(table.schema, @, item)]
        /\ inv' = [inv EXCEPT ![p].pc = "publish", ![p].item = item,
                     ![p].calls = Append(@, [op |-> "put_item", ok |-> TRUE])]
        /\ UNCHANGED <<clock, topic>>

\* The error of put_item is swallowed and the handler goes on to publish.
PutItemErrorSwallowed(p) ==
    /\ inv[p].pc = "put"
    /\ inv' = [inv EXCEPT ![p].pc = "publish",
                 ![p].calls = Append(@, [op |-> "put_item", ok |-> FALSE])]
    /\ UNCHANGED <<clock, table, topic>>

\* Lines 34-42, put_item raises (a rejected item, or a failed call).
PutItemRaises(p) ==
    /\ inv[p].pc = "put"
    /\ inv' = [inv EXCEPT ![p].pc = "raised", ![p].error = "put_item",
                 ![p].calls = Append(@, [op |-> "put_item", ok |-> FALSE])]
    /\ UNCHANGED <<clock, table, topic>>

\* Lines 45-58, the message is composed and publish succeeds.
Publish(p) ==
    LET message == Message(inv[p].repository, inv[p].image_tag,
                           inv[p].pushed_by, inv[p].timestamp)
    IN  /\ inv[p].pc = "publish"
        /\ topic' = [topic EXCEPT ![p] =
                        Append(@, [Subject |-> Subject, Message |-> message])]
        /\ inv' = [inv EXCEPT ![p].pc = "return", ![p].message = message,
                     ![p].calls = Append(@, [op |-> "publish", ok |-> TRUE])]
        /\ UNCHANGED <<clock, table>>

\* A failed publish is tried again, once.
PublishRaisesRetry(p) ==
    /\ inv[p].pc = "publish"
    /\ Len(inv[p].calls) < 3
    /\ inv' = [inv EXCEPT ![p].calls = Append(@, [op |-> "publish", ok |-> FALSE])]
    /\ UNCHANGED <<clock, table, topic>>

\* A failed publish deletes the item written before it raises.
PublishRaisesRollback(p) ==
    /\ inv[p].pc = "publish"
    /\ table' = [table EXCEPT !.items = @ \ {inv[p].item}]
    /\ inv' = [inv EXCEPT ![p].pc = "raised", ![p].error = "publish",
                 ![p].calls = Append(@, [op |-> "publish", ok |-> FALSE])]
    /\ UNCHANGED <<clock, topic>>

\* Lines 45-58, the message is composed and publish raises.
PublishRaises(p) ==
    /\ inv[p].pc = "publish"
    /\ inv' = [inv EXCEPT ![p].pc = "raised", ![p].error = "publish",
                 ![p].message = Message(inv[p].repository, inv[p].image_tag,
                                        inv[p].pushed_by, inv[p].timestamp),
                 ![p].calls = Append(@, [op |-> "publish", ok |-> FALSE])]
    /\ UNCHANGED <<clock, table, topic>>

\* Lines 60-63.
Return(p) ==
    /\ inv[p].pc = "return"
    /\ inv' = [inv EXCEPT ![p].pc = "returned", ![p].result = Envelope]
    /\ UNCHANGED <<clock, table, topic>>

\* Time passes.
Tick ==
    /\ clock < MaxClock
    /\ clock' = clock + 1
    /\ UNCHANGED <<table, topic, inv>>

Step(p) ==
    \/ ResolveFields(p)
    \/ ResolveFieldsRaises(p)
    \/ Timestamp(p)
    \/ PutItem(p)
    \/ PutItemRaises(p)
    \/ Publish(p)
    \/ PublishRaises(p)
    \/ Return(p)

\* One invocation, any inbound event.
Next ==
    \/ Tick
    \/ Invoke(1, Events)
    \/ Step(1)

Spec == Init /\ [][Next]_vars

\* Concurrent and repeated deliveries.
NextConc ==
    \/ Tick
    \/ \E p \in Procs : Invoke(p, ConcEvents)
    \/ \E p \in Procs : Step(p)

SpecConc == Init /\ [][NextConc]_vars

\* ------------------------------------------------------ properties
PutOk == [op |-> "put_item", ok |-> TRUE]
PutFailed == [op |-> "put_item", ok |-> FALSE]
PublishOk == [op |-> "publish", ok |-> TRUE]
PublishFailed == [op |-> "publish", ok |-> FALSE]

\* Invocation p has written its item to the table.
Wrote(p) == \E i \in 1..Len(inv[p].calls) : inv[p].calls[i] = PutOk
CallsOf(p, op) == {i \in 1..Len(inv[p].calls) : inv[p].calls[i].op = op}

Scenario3 == [top |-> EmptyDict, detail |-> [kind |-> "absent", fields |-> EmptyDict]]
Scenario4 == [top |-> [k \in {"account"} |-> [type |-> "str", val |-> "acct1"]],
              detail |-> [kind |-> "map", fields |-> EmptyDict]]

\* C1: the shape is selected by the presence of the top-level detail key
\* alone. With detail present, the persisted Repository and ImageTag are
\* the values under detail["repository-name"] and detail["image-tag"] and
\* PushedBy the value under top-level account, whatever top-level
\* repository, image_tag, pushed_by hold; without detail the three are the
\* values under top-level repository, image_tag, pushed_by.
C1_ShapeSelection ==
    \A p \in Procs : Wrote(p) =>
        LET e == inv[p].event
            it == inv[p].item
        IN  /\ it \in table.items
            /\ IF e.detail.kind # "absent"
               THEN /\ "repository-name" \in DOMAIN e.detail.fields
                          => it.Repository = e.detail.fields["repository-name"]
                    /\ "image-tag" \in DOMAIN e.detail.fields
                          => it.ImageTag = e.detail.fields["image-tag"]
                    /\ "account" \in DOMAIN e.top
                          => it.PushedBy = e.top["account"]
               ELSE /\ "repository" \in DOMAIN e.top
                          => it.Repository = e.top["repository"]
                    /\ "image_tag" \in DOMAIN e.top
                          => it.ImageTag = e.top["image_tag"]
                    /\ "pushed_by" \in DOMAIN e.top
                          => it.PushedBy = e.top["pushed_by"]

\* A bus event that also carries all three webhook keys has been persisted
\* with the values of its detail map and its account.
C1_Witness ==
    /\ Wrote(1)
    /\ inv[1].event.detail.kind = "map"
    /\ DOMAIN inv[1].event.top = TopKeys
    /\ inv[1].event.top["repository"] = [type |-> "str", val |-> "svc"]
    /\ inv[1].item.Repository = [type |-> "str", val |-> "myapp"]
    /\ inv[1].item.ImageTag = [type |-> "str", val |-> "v1.2"]
    /\ inv[1].item.PushedBy = [type |-> "str", val |-> "acct1"]

\* C2: for each field on its own, when the source key of the selected
\* shape is absent the persisted attribute is the field's sentinel
\* ("unknown-tag", "unknown-repo", "unknown-user"); the event {} yields the
\* three sentinels and {"detail": {}, "account": "acct1"} the two detail
\* sentinels with PushedBy "acct1".
C2_SentinelDefaults ==
    \A p \in Procs : Wrote(p) =>
        LET e == inv[p].event
            it == inv[p].item
            shapeA == e.detail.kind # "absent"
            tagAbsent == IF shapeA THEN "image-tag" \notin DOMAIN e.detail.fields
                                   ELSE "image_tag" \notin DOMAIN e.top
            repoAbsent == IF shapeA THEN "repository-name" \notin DOMAIN e.detail.fields
                                    ELSE "repository" \notin DOMAIN e.top
            userAbsent == IF shapeA THEN "account" \notin DOMAIN e.top
                                    ELSE "pushed_by" \notin DOMAIN e.top
        IN  /\ it \in table.items
            /\ tagAbsent => it.ImageTag = [type |-> "str", val |-> "unknown-tag"]
            /\ repoAbsent => it.Repository = [type |-> "str", val |-> "unknown-repo"]
            /\ userAbsent => it.PushedBy = [type |-> "str", val |-> "unknown-user"]
            /\ e = Scenario3 =>
                  /\ it.Repository.val = "unknown-repo"
                  /\ it.ImageTag.val = "unknown-tag"
                  /\ it.PushedBy.val = "unknown-user"
            /\ e = Scenario4 =>
                  /\ it.Repository.val = "unknown-repo"
                  /\ it.ImageTag.val = "unknown-tag"
                  /\ it.PushedBy = [type |-> "str", val |-> "acct1"]

\* Scenario 4 has been persisted.
C2_Witness ==
    /\ Wrote(1)
    /\ inv[1].event = Scenario4
    /\ inv[1].item.Repository.val = "unknown-repo"
    /\ inv[1].item.PushedBy.val = "acct1"
    /\ inv[1].item \in table.items

\* C3: every record in the store has the four attributes Repository,
\* ImageTag, PushedBy, Timestamp present and non-null, also when a source
\* key of the event is present with a null value.
C3_AllAttributesNonNull ==
    \A it \in table.items :
        /\ DOMAIN it = Attributes
        /\ \A a \in Attributes : it[a].type = "str"

\* C4: field resolution never aborts the invocation: an invocation ends by
\* an exception only when put_item or publish raised.
C4_ResolutionNeverAborts ==
    \A p \in Procs :
        inv[p].pc = "raised" => inv[p].error \in {"put_item", "publish"}

C6_OneWriteOnePublish ==
    /\ \A p \in Procs :
        /\ \A i \in 1..Len(inv[p].calls) : inv[p].calls[i].op \in {"put_item", "publish"}
        /\ Cardinality(CallsOf(p, "put_item")) <= 1
        /\ Cardinality(CallsOf(p, "publish")) <= 1
        /\ inv[p].pc = "returned" => inv[p].calls = <<PutOk, PublishOk>>
        /\ Len(topic[p]) = Cardinality({i \in CallsOf(p, "publish") : inv[p].calls[i].ok})
    /\ \A it \in table.items : \E p \in Procs : Wrote(p) /\ it = inv[p].item

\* Both invocations have returned, each after one put_item and one publish.
C6_Witness ==
    /\ \A p \in {1, 2} : inv[p].pc = "returned" /\ Len(topic[p]) = 1
    /\ Cardinality(table.items) = 2

\* C7: an invocation that returned returned statusCode 200 with the body
\* "\"Lambda executed successfully!\"", whichever fields were sentinels; a
\* result exists only after put_item and publish both succeeded, and none
\* when either raised.
C7_SuccessEnvelope ==
    \A p \in Procs :
        /\ inv[p].pc = "returned" =>
              /\ inv[p].result.statusCode = 200
              /\ inv[p].result.body = "\"Lambda executed successfully!\""
        /\ inv[p].result # NoResult =>
              /\ inv[p].calls = <<PutOk, PublishOk>>
              /\ inv[p].item \in table.items
              /\ Len(topic[p]) = 1
        /\ inv[p].pc = "raised" => inv[p].result = NoResult
        /\ inv[p].calls = <<PutOk, PublishOk>> => inv[p].pc \in {"return", "returned"}

\* The event {} has been handled up to the return, its record all sentinels.
C7_Witness ==
    /\ inv[1].pc = "returned"
    /\ inv[1].event = Scenario3
    /\ inv[1].item.PushedBy.val = "unknown-user"
    /\ inv[1].result.statusCode = 200

\* C8: every notification published has the subject "ECR Image Push
\* Notification" and as body the five-line template filled, in the order
\* Repository, Tag, Pushed By, Timestamp, with the values of the item the
\* same invocation wrote (a null value reads None).
C8_NotificationMatchesRecord ==
    \A p \in Procs : \A i \in 1..Len(topic[p]) :
        LET it == inv[p].item
            text(v) == IF v.type = "null" THEN "None" ELSE v.val
        IN  /\ Wrote(p)
            /\ topic[p][i].Subject = "ECR Image Push Notification"
            /\ topic[p][i].Message =
                  "Docker image pushed successfully!\nRepository: " \o text(it.Repository)
                  \o "\nTag: " \o text(it.ImageTag)
                  \o "\nPushed By: " \o text(it.PushedBy)
                  \o "\nTimestamp: " \o it.Timestamp.val

\* Scenario 1 has been published, at a clock reading with microseconds.
C8_Witness ==
    /\ Len(topic[1]) = 1
    /\ inv[1].item.Repository.val = "myapp"
    /\ inv[1].item.ImageTag.val = "v1.2"
    /\ inv[1].item.PushedBy.val = "acct1"
    /\ inv[1].item.Timestamp.val = "2024-01-01T00:00:00.000001"

\* C9: publish is called only right after a put_item that succeeded; when
\* put_item raised, the invocation has ended and published nothing.
C9_PublishOnlyAfterPersist ==
    \A p \in Procs :
        /\ \A i \in CallsOf(p, "publish") : i > 1 /\ inv[p].calls[i - 1] = PutOk
        /\ (\E i \in 1..Len(inv[p].calls) : inv[p].calls[i] = PutFailed) =>
              /\ inv[p].pc = "raised"
              /\ inv[p].calls = <<PutFailed>>
              /\ topic[p] = <<>>

\* put_item raised for a well-formed bus event.
C9_Witness ==
    /\ inv[1].pc = "raised"
    /\ inv[1].error = "put_item"
    /\ inv[1].repository.val = "myapp"
    /\ topic[1] = <<>>

\* C10: when put_item succeeded and publish raised, the invocation has
\* ended without a result, after exactly one call of each, and the record
\* it wrote is in the store.
C10_NoRollbackNoRetry ==
    \A p \in Procs :
        inv[p].error = "publish" =>
            /\ inv[p].pc = "raised"
            /\ inv[p].result = NoResult
            /\ inv[p].calls = <<PutOk, PublishFailed>>
            /\ topic[p] = <<>>
            /\ inv[p].item \in table.items

\* publish raised after the record of a webhook event was written.
C10_Witness ==
    /\ inv[1].error = "publish"
    /\ inv[1].item.Repository.val = "svc"
    /\ inv[1].item \in table.items

====
